---- MODULE Spec2Model ----
(***************************************************************************)
(* Solem Toolkit: the BLE command client of custom_components/solem_toolkit *)
(* (api.py, services.py).  Every caller is one coroutine running a control  *)
(* action of SolemAPI; its pc is the await it is suspended in.  An action   *)
(* of the model is the completion of that await together with all the code  *)
(* that runs up to the next await.                                          *)
(***************************************************************************)
EXTENDS Integers, Sequences, FiniteSets, TLC

\* ------------------------------------------------------------------ bounds
NumCallers == 2
MaxScan == 2

Callers == 1..NumCallers
\* Instance 0 is a SolemAPI object shared by all callers; instance c is the
\* object a service handler builds for call c alone.
Instances == 0..NumCallers

\* ---------------------------------------------------------- exceptions
Exc(kind, msg) == [kind |-> kind, msg |-> msg]
NoExc == Exc("none", "")
Returned == Exc("ok", "")
Cancelled == Exc("CancelledError", "")
StructError == Exc("struct.error", "ubyte format requires 0 <= number <= 255")
MsgNotFound == "Device not found! Failed connecting!"
MsgSlots == "Bluetooth adapter/proxy out of connection slots or device busy/unreachable"
MsgTimeout == "Timeout connecting to device"
MsgUnexpected == "Unexpected BLE connection error"
MsgFailedConnecting == "Failed connecting!"
MsgNotConnected == "Client not connected"
MsgWriteFailed == "BleakError: write failed"
MsgScanFailed == "BleakError: scanner failed"
APIConnectionError(msg) == Exc("APIConnectionError", msg)

\* ------------------------------------------------ command encoder (struct)
Min(a, b) == IF a < b THEN a ELSE b
Max(a, b) == IF a > b THEN a ELSE b

\* Mutant: the lower bound is forgotten.
ClampUpperOnly(lo, v, hi) == Min(v, hi)

\* max(lo, min(v, hi)) as written in every clamping action
Clamp(lo, v, hi) == Max(lo, Min(v, hi))

MaxDays == 365
MaxStation == 16
MaxMinutes == 240
MaxProgram == 3
Group == 12549

B(v) == [fmt |-> "B", val |-> v]
H(v) == [fmt |-> "H", val |-> v]

\* One struct field, big-endian: "B" is one unsigned byte, "H" two.  A value
\* outside the format's range makes struct.pack raise struct.error.
PackField(f) ==
    IF f.fmt = "B"
    THEN IF f.val \in 0..255
         THEN [ok |-> TRUE, bytes |-> <<f.val>>]
         ELSE [ok |-> FALSE, bytes |-> <<>>]
    ELSE IF f.val \in 0..65535
         THEN [ok |-> TRUE, bytes |-> <<f.val \div 256, f.val % 256>>]
         ELSE [ok |-> FALSE, bytes |-> <<>>]

RECURSIVE Pack(_)
Pack(fields) ==
    IF fields = <<>>
    THEN [ok |-> TRUE, bytes |-> <<>>]
    ELSE LET h == PackField(Head(fields))
             t == Pack(Tail(fields))
         IN IF h.ok /\ t.ok
            THEN [ok |-> TRUE, bytes |-> h.bytes \o t.bytes]
            ELSE [ok |-> FALSE, bytes |-> <<>>]

Commit == Pack(<<B(59), B(0)>>).bytes

Req(name, a, b) == [name |-> name, a |-> a, b |-> b]

\* The primary frame each control action packs before it connects.
Encode(req) ==
    CASE req.name = "turn_on" ->
           Pack(<<H(Group), B(18), B(255), B(0), H(65535)>>)
      [] req.name = "turn_off_permanent" ->
           Pack(<<H(Group), B(192), B(0), B(0), H(0)>>)
      [] req.name = "turn_off_x_days" ->
           Pack(<<H(Group), B(21), B(0), B(Clamp(0, req.a, MaxDays)), H(65535)>>)
      [] req.name = "sprinkle_station_x_for_y_minutes" ->
           Pack(<<H(Group), B(34), B(Clamp(1, req.a, MaxStation)), B(0),
                  B(Clamp(1, req.b, MaxMinutes)), H(65535)>>)
      [] req.name = "sprinkle_all_stations_for_y_minutes" ->
           Pack(<<H(Group), B(35), B(0), B(Clamp(1, req.a, MaxMinutes)), H(65535)>>)
      [] req.name = "run_program_x" ->
           Pack(<<H(Group), B(33), B(Clamp(1, req.a, MaxProgram)), B(0), H(65535)>>)
      [] req.name = "stop_manual_sprinkle" ->
           Pack(<<H(Group), B(36), B(0), B(0), H(65535)>>)

\* Inputs of the calls.
DaysInputs == {-5, 0, 7, 255, 256, 365, 1000}
StationInputs == {-1, 0, 1, 3, 16, 17, 99}
MinutesInputs == {-1, 0, 1, 15, 240, 241, 500}
ProgramInputs == {-1, 0, 1, 2, 3, 4, 7}

AllRequests ==
    {Req("turn_on", 0, 0), Req("turn_off_permanent", 0, 0), Req("stop_manual_sprinkle", 0, 0)}
    \cup {Req("turn_off_x_days", d, 0) : d \in DaysInputs}
    \cup {Req("sprinkle_station_x_for_y_minutes", s, m) : s \in StationInputs, m \in MinutesInputs}
    \cup {Req("sprinkle_all_stations_for_y_minutes", m, 0) : m \in MinutesInputs}
    \cup {Req("run_program_x", p, 0) : p \in ProgramInputs}

\* Concurrent callers all issue the same parameterless command.
SharedRequests == {Req("turn_on", 0, 0)}

\* ------------------------------------------------------------------ state
VARIABLES
    inst,       \* inst[c]: the SolemAPI instance caller c calls
    locked,     \* locked[i]: _conn_lock._locked of instance i
    waiters,    \* waiters[i]: _conn_lock._waiters of instance i, in arrival order
    pc,         \* pc[c]: the await caller c is suspended in
    call        \* call[c]: the locals of caller c's call and what it did to its handle

vars == <<inst, locked, waiters, pc, call>>

MaxAttempts == 3

InitCall ==
    [req |-> Req("none", 0, 0),   \* the action called and its arguments
     cmd |-> <<>>,                \* the packed primary frame
     lookups |-> 0,               \* find_device_by_address calls of this connect
     scans |-> 0,                 \* BleakScanner.discover calls of this connect
     scan |-> <<>>,               \* addresses the running discovery scan has seen
     dev |-> "none",              \* ble_device: the address resolution returned
     connects |-> 0,              \* connection attempts made by establish_connection
     handle |-> "none",           \* client: "none", "up" (is_connected), "down",
                                  \* "closing" (disconnect called), "closed" (it
                                  \* returned), "unclosed" (it raised)
     stage |-> "none",            \* frame being written: "primary" or "commit"
     attempt |-> 0,               \* tenacity attempt number for that frame
     lastExc |-> NoExc,           \* exception of the failed attempt being backed off
     fwrites |-> 0,               \* write_gatt_char invocations for that frame,
                                  \* kept until the call ends
     nwrites |-> 0,               \* write_gatt_char invocations of the call, until
                                  \* the finally clause is entered
     wire |-> <<>>,               \* frames write_gatt_char has written
     ndisc |-> 0,                 \* client.disconnect invocations
     pending |-> NoExc,           \* exception in flight while the finally clause runs
     cause |-> "none",            \* the transport exception that ended the connect
     result |-> NoExc,            \* how the API call ended
     svc |-> NoExc]               \* how the service handler ended

\* All callers share one SolemAPI instance.
Init ==
    /\ inst = [c \in Callers |-> 0]
    /\ locked = [i \in Instances |-> FALSE]
    /\ waiters = [i \in Instances |-> <<>>]
    /\ pc = [c \in Callers |-> "idle"]
    /\ call = [c \in Callers |-> InitCall]

\* Mutant: the handlers share one SolemAPI object.
InitSvcShared ==
    /\ inst = [c \in Callers |-> 0]
    /\ locked = [i \in Instances |-> FALSE]
    /\ waiters = [i \in Instances |-> <<>>]
    /\ pc = [c \in Callers |-> "idle"]
    /\ call = [c \in Callers |-> InitCall]

\* Every caller is a service call, which builds its own SolemAPI instance.
InitSvc ==
    /\ inst = [c \in Callers |-> c]
    /\ locked = [i \in Instances |-> FALSE]
    /\ waiters = [i \in Instances |-> <<>>]
    /\ pc = [c \in Callers |-> "idle"]
    /\ call = [c \in Callers |-> InitCall]

\* ------------------------------------------------------- asyncio.Lock
\* Mutant: the fast path looks at _locked alone and overtakes a woken waiter.
CanTakeLockIgnoringWaiters(i) == ~locked[i]

\* Lock.acquire takes the lock without suspending when it is free and every
\* queued waiter has been cancelled.
CanTakeLock(i) ==
    /\ ~locked[i]
    /\ \A k \in 1..Len(waiters[i]) : pc[waiters[i][k]] = "lock_cancelled"

\* Lock._wake_up_first: complete the first waiter's future unless it is done.
WakeUpFirst(p, ws) ==
    IF ws # <<>> /\ p[Head(ws)] = "lock_wait"
    THEN [p EXCEPT ![Head(ws)] = "lock_woken"]
    ELSE p

Without(ws, c) == SelectSeq(ws, LAMBDA w : w # c)

\* Mutant: release clears _locked but wakes nobody.
ReleaseLockNoWake(c, to) ==
    /\ locked' = [locked EXCEPT ![inst[c]] = FALSE]
    /\ pc' = [pc EXCEPT ![c] = to]
    /\ UNCHANGED waiters

\* Mutant: the lock stays held after the section is left.
ReleaseLockKeepsHeld(c, to) ==
    /\ pc' = [pc EXCEPT ![c] = to]
    /\ UNCHANGED <<locked, waiters>>

\* Leaving "async with self._conn_lock": Lock.release, then caller c goes on.
ReleaseLock(c, to) ==
    /\ locked' = [locked EXCEPT ![inst[c]] = FALSE]
    /\ pc' = WakeUpFirst([pc EXCEPT ![c] = to], waiters[inst[c]])
    /\ UNCHANGED waiters

\* ------------------------------------------------ service handler
\* except APIConnectionError as exc: raise HomeAssistantError(str(exc))
ServiceOutcome(e) ==
    IF e.kind = "APIConnectionError" THEN Exc("HomeAssistantError", e.msg) ELSE e

\* The API call ends with e; a service handler (own instance) translates it.
Ended(c, st, e) ==
    [st EXCEPT !.result = e,
               !.svc = IF inst[c] = c THEN ServiceOutcome(e) ELSE NoExc,
               !.lookups = 0, !.scans = 0, !.scan = <<>>, !.dev = "none", !.connects = 0,
               !.fwrites = 0, !.nwrites = 0]

\* ------------------------------------------------ device resolution
MacAddress == "Aa:01"
ScanAddrs == {"AA:01", "aa:01", "bb:02"}

\* str.lower on the addresses in play
Lower(a) == IF a \in {"Aa:01", "AA:01", "aa:01"} THEN "aa:01" ELSE a

\* Leaving _connect_client, by return or by exception: its locals are gone.
LeaveConnect(st) ==
    [st EXCEPT !.lookups = 0, !.scans = 0, !.scan = <<>>, !.dev = "none", !.connects = 0]

\* Mutant: the addresses are compared as written, letter case included.
RECURSIVE FirstMatchExact(_, _)
FirstMatchExact(devices, mac) ==
    IF devices = <<>> THEN "none"
    ELSE IF Head(devices) = mac THEN Head(devices)
    ELSE FirstMatchExact(Tail(devices), mac)

\* for d in devices: if (d.address or "").lower() == self.mac_address.lower(): return d
RECURSIVE FirstMatch(_, _)
FirstMatch(devices, mac) ==
    IF devices = <<>> THEN "none"
    ELSE IF Lower(Head(devices)) = Lower(mac) THEN Head(devices)
    ELSE FirstMatch(Tail(devices), mac)

\* ------------------------------------------------ connection manager
ConnectErrors == {"BleakOutOfConnectionSlotsError", "BleakDBusError", "TimeoutError",
                  "OSError", "BleakError"}

\* Mutant: the transport clause comes first and takes the slot error with it.
ClassifySlotsAsTimeout(e) ==
    IF e \in {"BleakOutOfConnectionSlotsError", "BleakDBusError", "TimeoutError", "OSError"}
    THEN APIConnectionError(MsgTimeout)
    ELSE APIConnectionError(MsgUnexpected)

\* the except clauses of _connect_client, in order
ClassifyConnectError(e) ==
    IF e = "BleakOutOfConnectionSlotsError" THEN APIConnectionError(MsgSlots)
    ELSE IF e \in {"BleakDBusError", "TimeoutError", "OSError"} THEN APIConnectionError(MsgTimeout)
    ELSE APIConnectionError(MsgUnexpected)

\* ------------------------------------------------ write pipeline
Step(to, st) == [pc |-> to, st |-> st]

\* Mutant: the two frames are passed in the wrong order.
PayloadCommitFirst(st) == IF st.stage = "primary" THEN Commit ELSE st.cmd

\* The argument of the running _write_with_auth_retry call.
Payload(st) == IF st.stage = "primary" THEN st.cmd ELSE Commit

\* Mutant: "except Exception" in place of "finally": a cancellation skips the
\* disconnect.
FinallyMissesCancel(st, e) ==
    IF e = Cancelled
    THEN Step("done", [st EXCEPT !.result = e, !.svc = e, !.fwrites = 0, !.nwrites = 0,
                                 !.stage = "none", !.attempt = 0, !.lastExc = NoExc])
    ELSE Step("disconnecting",
              [st EXCEPT !.ndisc = @ + 1, !.pending = e,
                         !.handle = "closing", !.nwrites = 0,
                         !.stage = "none", !.attempt = 0, !.lastExc = NoExc])

\* finally: try: await client.disconnect()   (entered with e in flight)
Finally(st, e) ==
    Step("disconnecting",
         [st EXCEPT !.ndisc = @ + 1, !.pending = e,
                    !.handle = "closing", !.nwrites = 0,
                    !.stage = "none", !.attempt = 0, !.lastExc = NoExc])

\* Mutant: tenacity stops one attempt late.
AttemptFailedStopsLate(st, e) ==
    IF st.attempt < MaxAttempts + 1
    THEN Step("backoff", [st EXCEPT !.lastExc = e])
    ELSE Finally(st, Exc("RetryError", e.msg))

\* Mutant: no retry, the first failure ends the frame.
AttemptFailedNoRetry(st, e) == Finally(st, Exc("RetryError", e.msg))

\* tenacity after a failed attempt: retry_if_exception_type() retries on every
\* Exception; stop_after_attempt(3) without reraise ends in RetryError.
AttemptFailed(st, e) ==
    IF st.attempt < MaxAttempts
    THEN Step("backoff", [st EXCEPT !.lastExc = e])
    ELSE Finally(st, Exc("RetryError", e.msg))

\* Attempt n of _write_with_auth_retry: the is_connected check, then the write.
BeginAttempt(st, n) ==
    LET s1 == [st EXCEPT !.attempt = n, !.lastExc = NoExc]
    IN IF s1.handle # "up"
       THEN AttemptFailed(s1, APIConnectionError(MsgNotConnected))
       ELSE Step("writing", [s1 EXCEPT !.fwrites = @ + 1, !.nwrites = @ + 1])

\* await self._write_with_auth_retry(client, frame)
WriteFrame(st, stage) == BeginAttempt([st EXCEPT !.stage = stage, !.fwrites = 0], 1)

\* write_gatt_char returned: the frame is on the wire
AfterWrite(st) ==
    LET s1 == [st EXCEPT !.wire = Append(@, Payload(st))]
    IN IF st.stage = "primary" THEN WriteFrame(s1, "commit") ELSE Finally(s1, NoExc)

\* Mutant: a handle that is not connected is dropped without the cleanup.
AfterConnectSkipsCleanup(st, h) ==
    LET s1 == [LeaveConnect(st) EXCEPT !.handle = h]
    IN IF h # "up"
       THEN Step("done", [s1 EXCEPT !.result = APIConnectionError(MsgFailedConnecting),
                                    !.svc = Exc("HomeAssistantError", MsgFailedConnecting)])
       ELSE WriteFrame(s1, "primary")

\* _connect_client returned client to _write_and_commit
AfterConnect(st, h) ==
    LET s1 == [LeaveConnect(st) EXCEPT !.handle = h]
    IN IF h # "up"
       THEN Finally(s1, APIConnectionError(MsgFailedConnecting))
       ELSE WriteFrame(s1, "primary")

\* Mutant: the exception of disconnect leaves the finally clause.
AfterDisconnectMasks(st, raised) ==
    IF raised THEN Exc("BleakError", "disconnect failed")
    ELSE IF st.pending = NoExc THEN Returned ELSE st.pending

\* except Exception: pass  -- the call ends as it stood before disconnect
AfterDisconnect(st, raised) ==
    IF st.pending = NoExc THEN Returned ELSE st.pending

\* ------------------------------------------------ list_characteristics
MsgNoServices == "Services not available on this platform/client"
MsgGetServicesFailed == "BleakError: get_services failed"

\* What the client returned by establish_connection offers: a services
\* attribute, an inner client with get_services, or neither.
Topologies == {"services", "inner", "none"}

\* Mutant: without services the call ends before the cleanup.
AfterConnectListNoCleanup(st, h, t) ==
    LET s1 == [LeaveConnect(st) EXCEPT !.handle = h]
    IN IF h # "up" THEN Finally(s1, APIConnectionError(MsgFailedConnecting))
       ELSE IF t = "services" THEN Finally(s1, NoExc)
       ELSE IF t = "inner" THEN Step("get_services", s1)
       ELSE Step("done", [s1 EXCEPT !.result = APIConnectionError(MsgNoServices),
                                    !.svc = Exc("HomeAssistantError", MsgNoServices)])

\* _connect_client returned client to list_characteristics
AfterConnectList(st, h, t) ==
    LET s1 == [LeaveConnect(st) EXCEPT !.handle = h]
    IN IF h # "up" THEN Finally(s1, APIConnectionError(MsgFailedConnecting))
       ELSE IF t = "services" THEN Finally(s1, NoExc)
       ELSE IF t = "inner" THEN Step("get_services", s1)
       ELSE Finally(s1, APIConnectionError(MsgNoServices))

\* ------------------------------------------------------------ actions
MaxConnectAttempts == 3

Set(c, st) == call' = [call EXCEPT ![c] = st]

\* self._resolve_ble_device() starts: await BleakScanner.find_device_by_address
EnterResolve(st) == [st EXCEPT !.lookups = @ + 1]

\* await establish_connection(BleakClient, ble_device, ..., max_attempts=3) starts
EnterConnect(st, d) == [st EXCEPT !.dev = d, !.connects = 1]

\* A control action is called: it packs its frame, then _write_and_commit ->
\* _connect_client -> "async with self._conn_lock".
Call(c, Requests) ==
    /\ pc[c] = "idle"
    /\ \E r \in Requests :
         LET e == Encode(r)
             i == inst[c]
             st == [InitCall EXCEPT !.req = r]
         IN IF ~e.ok
            THEN /\ Set(c, Ended(c, st, StructError))
                 /\ pc' = [pc EXCEPT ![c] = "done"]
                 /\ UNCHANGED <<locked, waiters>>
            ELSE IF CanTakeLock(i)
            THEN /\ locked' = [locked EXCEPT ![i] = TRUE]
                 /\ pc' = [pc EXCEPT ![c] = "lookup"]
                 /\ Set(c, EnterResolve([st EXCEPT !.cmd = e.bytes]))
                 /\ UNCHANGED waiters
            ELSE /\ waiters' = [waiters EXCEPT ![i] = Append(@, c)]
                 /\ pc' = [pc EXCEPT ![c] = "lock_wait"]
                 /\ Set(c, [st EXCEPT !.cmd = e.bytes])
                 /\ UNCHANGED locked
    /\ UNCHANGED inst

\* Lock.acquire: the waiter's future was completed by a release; it takes the lock.
LockResume(c) ==
    /\ pc[c] = "lock_woken"
    /\ waiters' = [waiters EXCEPT ![inst[c]] = Without(@, c)]
    /\ locked' = [locked EXCEPT ![inst[c]] = TRUE]
    /\ pc' = [pc EXCEPT ![c] = "lookup"]
    /\ Set(c, EnterResolve(call[c]))
    /\ UNCHANGED inst

\* The task is cancelled while it waits for the lock: its future is cancelled, or,
\* if a release completed the future already, the task is marked to be cancelled.
CancelLockWait(c) ==
    /\ pc[c] \in {"lock_wait", "lock_woken"}
    /\ pc' = [pc EXCEPT ![c] = IF pc[c] = "lock_wait" THEN "lock_cancelled"
                                ELSE "lock_woken_cancelled"]
    /\ UNCHANGED <<inst, locked, waiters, call>>

\* Lock.acquire resumes with CancelledError: it leaves the queue and, if the lock
\* is free, wakes the next waiter.
LockCancelled(c) ==
    /\ pc[c] \in {"lock_cancelled", "lock_woken_cancelled"}
    /\ LET ws == Without(waiters[inst[c]], c)
           p == [pc EXCEPT ![c] = "done"]
       IN /\ waiters' = [waiters EXCEPT ![inst[c]] = ws]
          /\ pc' = IF locked[inst[c]] THEN p ELSE WakeUpFirst(p, ws)
    /\ Set(c, Ended(c, call[c], Cancelled))
    /\ UNCHANGED <<inst, locked>>

\* Mutant: the scan runs although the direct lookup returned a device.
LookupDoneThenScan(c) ==
    /\ pc[c] = "lookup"
    /\ \/ /\ pc' = [pc EXCEPT ![c] = "scanning"]
          /\ Set(c, [call[c] EXCEPT !.dev = MacAddress, !.scans = @ + 1])
          /\ UNCHANGED <<locked, waiters>>
       \/ /\ pc' = [pc EXCEPT ![c] = "scanning"]
          /\ Set(c, [call[c] EXCEPT !.scans = @ + 1])
          /\ UNCHANGED <<locked, waiters>>
       \/ /\ ReleaseLock(c, "done")
          /\ Set(c, Ended(c, [call[c] EXCEPT !.cause = "BleakError"],
                          Exc("BleakError", MsgScanFailed)))
    /\ UNCHANGED inst

\* find_device_by_address returned or raised.
LookupDone(c) ==
    /\ pc[c] = "lookup"
    /\ \/ /\ pc' = [pc EXCEPT ![c] = "connecting"]
          /\ Set(c, EnterConnect(call[c], MacAddress))
          /\ UNCHANGED <<locked, waiters>>
       \/ /\ pc' = [pc EXCEPT ![c] = "scanning"]
          /\ Set(c, [call[c] EXCEPT !.scans = @ + 1])
          /\ UNCHANGED <<locked, waiters>>
       \/ /\ ReleaseLock(c, "done")
          /\ Set(c, Ended(c, [call[c] EXCEPT !.cause = "BleakError"],
                          Exc("BleakError", MsgScanFailed)))
    /\ UNCHANGED inst

\* While BleakScanner.discover runs, the scanner sees one more device (discover
\* lists every address once).
Advertise(c) ==
    /\ pc[c] = "scanning"
    /\ Len(call[c].scan) < MaxScan
    /\ \E a \in ScanAddrs :
         /\ \A k \in 1..Len(call[c].scan) : call[c].scan[k] # a
         /\ Set(c, [call[c] EXCEPT !.scan = Append(@, a)])
    /\ UNCHANGED <<inst, locked, waiters, pc>>

\* BleakScanner.discover returned the devices seen, or raised; the loop looks
\* for the address.
ScanDone(c) ==
    /\ pc[c] = "scanning"
    /\ \/ LET d == FirstMatch(call[c].scan, MacAddress)
          IN IF d # "none"
             THEN /\ pc' = [pc EXCEPT ![c] = "connecting"]
                  /\ Set(c, EnterConnect([call[c] EXCEPT !.scan = <<>>], d))
                  /\ UNCHANGED <<locked, waiters>>
             ELSE /\ ReleaseLock(c, "done")
                  /\ Set(c, Ended(c, call[c], APIConnectionError(MsgNotFound)))
       \/ /\ ReleaseLock(c, "done")
          /\ Set(c, Ended(c, [call[c] EXCEPT !.cause = "BleakError"],
                          Exc("BleakError", MsgScanFailed)))
    /\ UNCHANGED inst

\* Inside establish_connection: an attempt failed and the connector tries again,
\* on the device it was given.
ConnectRetry(c) ==
    /\ pc[c] = "connecting"
    /\ call[c].connects < MaxConnectAttempts
    /\ Set(c, [call[c] EXCEPT !.connects = @ + 1])
    /\ UNCHANGED <<inst, locked, waiters, pc>>

\* establish_connection returned a client or raised; the lock is released.
ConnectDone(c) ==
    /\ pc[c] = "connecting"
    /\ \/ \E h \in {"up", "down"},
             t \in IF call[c].req.name = "list_characteristics" THEN Topologies ELSE {"none"} :
            LET n == IF call[c].req.name = "list_characteristics"
                     THEN AfterConnectList(call[c], h, t)
                     ELSE AfterConnect(call[c], h)
            IN ReleaseLock(c, n.pc) /\ Set(c, n.st)
       \/ \E e \in ConnectErrors :
            /\ ReleaseLock(c, "done")
            /\ Set(c, Ended(c, [call[c] EXCEPT !.cause = e], ClassifyConnectError(e)))
    /\ UNCHANGED inst

\* The task is cancelled during resolution or connection: CancelledError leaves
\* _connect_client through the lock's __aexit__.
CancelConnect(c) ==
    /\ pc[c] \in {"lookup", "scanning", "connecting"}
    /\ ReleaseLock(c, "done")
    /\ Set(c, Ended(c, call[c], Cancelled))
    /\ UNCHANGED inst

\* write_gatt_char returned or raised.
WriteDone(c) ==
    /\ pc[c] = "writing"
    /\ \E n \in {AfterWrite(call[c]),
                 AttemptFailed(call[c], Exc("BleakError", MsgWriteFailed))} :
         /\ pc' = [pc EXCEPT ![c] = n.pc]
         /\ Set(c, n.st)
    /\ UNCHANGED <<inst, locked, waiters>>

\* The backoff sleep of tenacity ended: next attempt.
BackoffDone(c) ==
    /\ pc[c] = "backoff"
    /\ LET n == BeginAttempt(call[c], call[c].attempt + 1)
       IN /\ pc' = [pc EXCEPT ![c] = n.pc]
          /\ Set(c, n.st)
    /\ UNCHANGED <<inst, locked, waiters>>

\* The task is cancelled in a write or in a backoff sleep: tenacity lets
\* CancelledError through and the finally clause runs.
CancelWrite(c) ==
    /\ pc[c] \in {"writing", "backoff"}
    /\ LET n == Finally(call[c], Cancelled)
       IN /\ pc' = [pc EXCEPT ![c] = n.pc]
          /\ Set(c, n.st)
    /\ UNCHANGED <<inst, locked, waiters>>

\* The device drops the connection while the call is suspended.
Drop(c) ==
    /\ pc[c] \in {"writing", "backoff"}
    /\ call[c].handle = "up"
    /\ Set(c, [call[c] EXCEPT !.handle = "down"])
    /\ UNCHANGED <<inst, locked, waiters, pc>>

\* client.disconnect returned or raised an Exception; the call ends.
DisconnectDone(c) ==
    /\ pc[c] = "disconnecting"
    /\ \E raised \in BOOLEAN :
         Set(c, Ended(c, [call[c] EXCEPT !.pending = NoExc,
                                         !.handle = IF raised THEN "unclosed" ELSE "closed"],
                      AfterDisconnect(call[c], raised)))
    /\ pc' = [pc EXCEPT ![c] = "done"]
    /\ UNCHANGED <<inst, locked, waiters>>

\* The task is cancelled while it awaits disconnect: CancelledError is no
\* Exception, so it leaves the finally clause.
CancelDisconnect(c) ==
    /\ pc[c] = "disconnecting"
    /\ Set(c, Ended(c, [call[c] EXCEPT !.pending = NoExc], Cancelled))
    /\ pc' = [pc EXCEPT ![c] = "done"]
    /\ UNCHANGED <<inst, locked, waiters>>

\* list_characteristics is called: _connect_client -> "async with self._conn_lock".
CallList(c) ==
    /\ pc[c] = "idle"
    /\ LET i == inst[c]
           st == [InitCall EXCEPT !.req = Req("list_characteristics", 0, 0)]
       IN IF CanTakeLock(i)
          THEN /\ locked' = [locked EXCEPT ![i] = TRUE]
               /\ pc' = [pc EXCEPT ![c] = "lookup"]
               /\ Set(c, EnterResolve(st))
               /\ UNCHANGED waiters
          ELSE /\ waiters' = [waiters EXCEPT ![i] = Append(@, c)]
               /\ pc' = [pc EXCEPT ![c] = "lock_wait"]
               /\ Set(c, st)
               /\ UNCHANGED locked
    /\ UNCHANGED inst

\* inner.get_services() returned or raised; the mapping is built and the
\* finally clause runs.
GetServicesDone(c) ==
    /\ pc[c] = "get_services"
    /\ \E e \in {NoExc, Exc("BleakError", MsgGetServicesFailed)} :
         LET n == Finally(call[c], e)
         IN /\ pc' = [pc EXCEPT ![c] = n.pc]
            /\ Set(c, n.st)
    /\ UNCHANGED <<inst, locked, waiters>>

\* The task is cancelled while it awaits get_services.
CancelGetServices(c) ==
    /\ pc[c] = "get_services"
    /\ LET n == Finally(call[c], Cancelled)
       IN /\ pc' = [pc EXCEPT ![c] = n.pc]
          /\ Set(c, n.st)
    /\ UNCHANGED <<inst, locked, waiters>>

\* The caller has its answer and may call again.
Return(c) ==
    /\ pc[c] = "done"
    /\ pc' = [pc EXCEPT ![c] = "idle"]
    /\ Set(c, InitCall)
    /\ UNCHANGED <<inst, locked, waiters>>

\* Concurrent callers, all with the same command.
Next ==
    \E c \in Callers :
        \/ Call(c, SharedRequests)
        \/ LockResume(c)
        \/ CancelLockWait(c)
        \/ LockCancelled(c)
        \/ LookupDone(c)
        \/ Advertise(c)
        \/ ScanDone(c)
        \/ ConnectRetry(c)
        \/ ConnectDone(c)
        \/ CancelConnect(c)
        \/ WriteDone(c)
        \/ BackoffDone(c)
        \/ CancelWrite(c)
        \/ Drop(c)
        \/ DisconnectDone(c)
        \/ CancelDisconnect(c)
        \/ Return(c)

Spec == Init /\ [][Next]_vars

\* Scheduling: the event loop resumes every coroutine whose await has completed,
\* and every transport operation (lookup, scan, connect, write, backoff sleep,
\* disconnect) terminates.
Fairness ==
    \A c \in Callers :
        /\ WF_vars(LockResume(c))
        /\ WF_vars(LockCancelled(c))
        /\ WF_vars(LookupDone(c))
        /\ WF_vars(ScanDone(c))
        /\ WF_vars(ConnectDone(c))
        /\ WF_vars(WriteDone(c))
        /\ WF_vars(BackoffDone(c))
        /\ WF_vars(DisconnectDone(c))

\* Concurrent callers on one instance with a quiet environment: the scanner sees
\* no device, the link stays up and only resolve+connect is ever cancelled.
NextLive ==
    \E c \in Callers :
        \/ Call(c, SharedRequests)
        \/ LockResume(c)
        \/ CancelLockWait(c)
        \/ LockCancelled(c)
        \/ LookupDone(c)
        \/ ScanDone(c)
        \/ ConnectDone(c)
        \/ CancelConnect(c)
        \/ WriteDone(c)
        \/ BackoffDone(c)
        \/ DisconnectDone(c)
        \/ Return(c)

SpecLive == Init /\ [][NextLive]_vars /\ Fairness

\* One service call at a time, with every command and argument.
NextCmd ==
    \/ Call(1, AllRequests)
    \/ LookupDone(1)
    \/ Advertise(1)
    \/ ScanDone(1)
    \/ ConnectRetry(1)
    \/ ConnectDone(1)
    \/ CancelConnect(1)
    \/ WriteDone(1)
    \/ BackoffDone(1)
    \/ CancelWrite(1)
    \/ Drop(1)
    \/ DisconnectDone(1)
    \/ CancelDisconnect(1)
    \/ Return(1)

SpecCmd == InitSvc /\ [][NextCmd]_vars

\* Service calls of list_characteristics, each on its own SolemAPI instance.
NextList ==
    \E c \in Callers :
        \/ CallList(c)
        \/ LookupDone(c)
        \/ Advertise(c)
        \/ ScanDone(c)
        \/ ConnectRetry(c)
        \/ ConnectDone(c)
        \/ CancelConnect(c)
        \/ GetServicesDone(c)
        \/ CancelGetServices(c)
        \/ DisconnectDone(c)
        \/ CancelDisconnect(c)
        \/ Return(c)

SpecList == InitSvc /\ [][NextList]_vars

\* Concurrent service calls, each on the SolemAPI instance its handler built,
\* with a quiet environment (no advertisements, no link drop, no cancellation
\* after connect).
NextSvc ==
    \E c \in Callers :
        \/ Call(c, SharedRequests)
        \/ LookupDone(c)
        \/ ScanDone(c)
        \/ ConnectDone(c)
        \/ CancelConnect(c)
        \/ WriteDone(c)
        \/ BackoffDone(c)
        \/ DisconnectDone(c)
        \/ Return(c)

SpecSvc == InitSvc /\ [][NextSvc]_vars

\* ------------------------------------------------------------ claims
InCriticalSection(c) == pc[c] \in {"lookup", "scanning", "connecting"}
HasHandle(c) == call[c].handle # "none"

\* C1: among the callers of one SolemAPI instance, at most one is inside the
\* resolve+connect section of _connect_client at any time.
C1_MutualExclusion ==
    \A c1, c2 \in Callers :
        (c1 # c2 /\ inst[c1] = inst[c2]) => ~(InCriticalSection(c1) /\ InCriticalSection(c2))

\* One caller is connecting while another, on the same instance, queues for the lock.
C1_Witness ==
    \E c1, c2 \in Callers :
        /\ c1 # c2 /\ inst[c1] = inst[c2]
        /\ pc[c1] = "connecting" /\ pc[c2] = "lock_wait"

\* C2: a call that obtained a handle invokes disconnect on it exactly once before
\* it ends, on every exit path: never before the cleanup, once from then on,
\* and a call without a handle never disconnects.
C2_DisconnectExactlyOnce ==
    \A c \in Callers :
        /\ call[c].ndisc <= 1
        /\ ~HasHandle(c) => call[c].ndisc = 0
        /\ pc[c] \in {"writing", "backoff"} => HasHandle(c) /\ call[c].ndisc = 0
        /\ pc[c] = "disconnecting" => HasHandle(c) /\ call[c].ndisc = 1
        /\ (pc[c] = "done" /\ HasHandle(c)) => call[c].ndisc = 1

\* A call cancelled in the write of its commit frame has disconnected once and ended.
C2_Witness ==
    \E c \in Callers :
        /\ pc[c] = "done" /\ call[c].result = Cancelled
        /\ call[c].handle = "closed" /\ call[c].wire = <<call[c].cmd>>
        /\ call[c].ndisc = 1

\* C3: the commit frame {0x3B, 0x00} is written only after the primary frame is on
\* the wire; a call whose primary frame is not on the wire writes no commit frame.
C3_CommitAfterPrimary ==
    \A c \in Callers :
        /\ Len(call[c].wire) <= 2
        /\ \A k \in 1..Len(call[c].wire) :
             call[c].wire[k] = <<59, 0>> => (k = 2 /\ call[c].wire[1] = call[c].cmd)
        /\ Len(call[c].wire) = 2 => call[c].wire[2] = <<59, 0>>
        /\ (pc[c] = "writing" /\ call[c].wire = <<>>) => Payload(call[c]) = call[c].cmd
        /\ (pc[c] = "writing" /\ call[c].wire # <<>>) =>
              (Payload(call[c]) = <<59, 0>> /\ call[c].wire = <<call[c].cmd>>)
        /\ call[c].stage = "commit" => call[c].wire = <<call[c].cmd>>

\* Both frames are on the wire, the primary first.
C3_Witness ==
    \E c \in Callers :
        call[c].wire = <<call[c].cmd, <<59, 0>>>> /\ call[c].cmd # <<59, 0>>

\* C4: a write attempt that finds the handle not connected ends the frame at once
\* with ConnectionError: no backoff wait, no further attempt, no RetryError.
C4_NotConnectedFailsFast ==
    \A c \in Callers :
        /\ call[c].lastExc = APIConnectionError(MsgNotConnected) => pc[c] # "backoff"
        /\ call[c].pending.msg = MsgNotConnected => call[c].pending.kind = "APIConnectionError"

\* C5: the listed failures of a control action reach the caller as
\* APIConnectionError and leave the service handler as HomeAssistantError with
\* the same message.
ListedFailures ==
    {MsgNotFound, MsgSlots, MsgTimeout, MsgUnexpected, MsgFailedConnecting,
     MsgNotConnected, MsgWriteFailed}

C5_SingleErrorKind ==
    \A c \in Callers :
        (pc[c] = "done" /\ call[c].result.msg \in ListedFailures) =>
            /\ call[c].result.kind = "APIConnectionError"
            /\ inst[c] = c => call[c].svc = Exc("HomeAssistantError", call[c].result.msg)

\* Saturating clamp, the way the claims state it.
Saturate(lo, v, hi) == IF v < lo THEN lo ELSE IF v > hi THEN hi ELSE v

\* C6: turn_off_x_days never fails at encoding and its frame is
\* (group, 0x15, 0x00, days', 0xFFFF) with days' = min(max(days, 0), 365).
C6_DaysFrame ==
    \A c \in Callers :
        call[c].req.name = "turn_off_x_days" =>
            /\ call[c].result # StructError
            /\ call[c].cmd = <<49, 5, 21, 0, Saturate(0, call[c].req.a, 365), 255, 255>>

\* C7: station, minutes and program are clamped to [1,16], [1,240] and [1,3]: the
\* call is never rejected at encoding, and the frame, which is a function of
\* the arguments, is the one sent first.
ExpectedFrame(r) ==
    CASE r.name = "sprinkle_station_x_for_y_minutes" ->
           <<49, 5, 34, Saturate(1, r.a, 16), 0, Saturate(1, r.b, 240), 255, 255>>
      [] r.name = "sprinkle_all_stations_for_y_minutes" ->
           <<49, 5, 35, 0, Saturate(1, r.a, 240), 255, 255>>
      [] r.name = "run_program_x" ->
           <<49, 5, 33, Saturate(1, r.a, 3), 0, 255, 255>>

ClampedActions ==
    {"sprinkle_station_x_for_y_minutes", "sprinkle_all_stations_for_y_minutes", "run_program_x"}

C7_ClampedFrames ==
    \A c \in Callers :
        call[c].req.name \in ClampedActions =>
            /\ call[c].result # StructError
            /\ call[c].cmd = ExpectedFrame(call[c].req)
            /\ call[c].wire # <<>> => call[c].wire[1] = ExpectedFrame(call[c].req)

\* station=99, minutes=500 went out as station 16, minutes 240.
C7_Witness ==
    \E c \in Callers :
        /\ call[c].req = Req("sprinkle_station_x_for_y_minutes", 99, 500)
        /\ call[c].wire # <<>>
        /\ call[c].wire[1] = <<49, 5, 34, 16, 0, 240, 255, 255>>

\* C8: when the connector raises the slot-exhaustion error, the call ends with an
\* APIConnectionError naming adapter/slot exhaustion and has written nothing.
C8_SlotExhaustion ==
    \A c \in Callers :
        /\ InCriticalSection(c) => (call[c].fwrites = 0 /\ call[c].wire = <<>>)
        /\ call[c].cause = "BleakOutOfConnectionSlotsError" =>
              /\ pc[c] = "done"
              /\ call[c].result = Exc("APIConnectionError",
                    "Bluetooth adapter/proxy out of connection slots or device busy/unreachable")
              /\ call[c].wire = <<>> /\ call[c].fwrites = 0
              /\ call[c].stage = "none" /\ ~HasHandle(c)

C8_Witness ==
    \E c \in Callers :
        pc[c] = "done" /\ call[c].cause = "BleakOutOfConnectionSlotsError"

\* C9: a call with a connected handle fails only if it is cancelled, the link is
\* lost, or the transport fails one frame's write 3 times in a row; otherwise it
\* returns with exactly the primary frame and the commit frame written, in that
\* order, and one disconnect.
C9_State ==
    \A c \in Callers :
        /\ (pc[c] = "backoff" /\ call[c].lastExc.msg = MsgWriteFailed) =>
              (call[c].attempt < 3 /\ call[c].fwrites = call[c].attempt)
        /\ (pc[c] = "disconnecting" /\ call[c].pending.msg = MsgWriteFailed) =>
              call[c].fwrites = 3
        /\ (pc[c] = "disconnecting" /\ call[c].pending = NoExc) =>
              (call[c].wire = <<call[c].cmd, <<59, 0>>>> /\ call[c].ndisc = 1)
        /\ (pc[c] = "done" /\ call[c].result = Returned) =>
              (call[c].wire = <<call[c].cmd, <<59, 0>>>> /\ call[c].ndisc = 1)

\* Leaving a write or a backoff for the cleanup happens by success, by
\* cancellation, by a lost link, or by the third failure of one frame.
C9_Step ==
    \A c \in Callers :
        (pc[c] \in {"writing", "backoff"} /\ pc'[c] = "disconnecting") =>
            \/ call'[c].pending = NoExc
            \/ call'[c].pending = Cancelled
            \/ (call'[c].pending.msg = MsgNotConnected /\ call[c].handle = "down")
            \/ (call'[c].pending.msg = MsgWriteFailed /\ pc[c] = "writing"
                  /\ call[c].attempt = 3 /\ call[c].fwrites = 3)

C9_RetrySucceeds == []C9_State /\ [][C9_Step]_vars

\* sprinkle_station_x_for_y_minutes(3, 15): the commit frame went through on its
\* second attempt, both frames are on the wire and disconnect has been called once.
C9_Witness ==
    \E c \in Callers :
        /\ call[c].req = Req("sprinkle_station_x_for_y_minutes", 3, 15)
        /\ pc[c] = "disconnecting" /\ call[c].pending = NoExc
        /\ call[c].fwrites = 2
        /\ call[c].wire = <<<<49, 5, 34, 3, 0, 15, 255, 255>>, <<59, 0>>>>
        /\ call[c].ndisc = 1

\* C10: when disconnect raises, the call ends as it stood when the cleanup began:
\* success stays success, error E stays E.
C10_Step ==
    \A c \in Callers :
        (pc[c] = "disconnecting" /\ pc'[c] = "done" /\ call'[c].handle = "unclosed") =>
            /\ call[c].pending = NoExc => call'[c].result = Returned
            /\ call[c].pending # NoExc => call'[c].result = call[c].pending

C10_DisconnectErrorDiscarded == [][C10_Step]_vars

\* disconnect raised and the call returned success all the same.
C10_Witness ==
    \E c \in Callers :
        pc[c] = "done" /\ call[c].handle = "unclosed" /\ call[c].result = Returned

\* C11: in one resolution, the discovery scan runs only when the direct lookup
\* returned no device: a device the lookup returned is the one connected to, with
\* no scan started.
C11_State ==
    \A c \in Callers :
        /\ pc[c] = "scanning" =>
              (call[c].dev = "none" /\ call[c].lookups = 1 /\ call[c].scans = 1)
        /\ (pc[c] = "connecting" /\ call[c].scans = 0) =>
              (call[c].dev = "Aa:01" /\ call[c].lookups = 1)

C11_Step ==
    \A c \in Callers :
        (pc[c] = "lookup" /\ call'[c].dev # "none") =>
            (pc'[c] = "connecting" /\ call'[c].dev = "Aa:01" /\ call'[c].scans = 0)

C11_LookupShortCircuit == []C11_State /\ [][C11_Step]_vars

\* The lookup returned the device and the connection is being made: no scan ran.
C11_Witness ==
    \E c \in Callers :
        /\ pc[c] = "connecting" /\ call[c].dev = "Aa:01"
        /\ call[c].lookups = 1 /\ call[c].scans = 0

\* C14: leaving the resolve+connect section, with a handle or with an exception,
\* frees the lock; and, transport operations terminating, a caller queued on the
\* lock is eventually resumed into its own resolve+connect (or is cancelled
\* while it waits).
C14_Step ==
    \A c \in Callers :
        (InCriticalSection(c) /\ ~InCriticalSection(c)') => ~locked'[inst[c]]

C14_Waiting(c) == pc[c] \in {"lock_wait", "lock_woken"}

C14_Resumed(c) ==
    \/ pc[c] = "lookup" /\ locked[inst[c]] /\ call[c].handle = "none" /\ call[c].lookups = 1
    \/ pc[c] \in {"lock_cancelled", "lock_woken_cancelled"}

C14_LockReleased ==
    /\ [][C14_Step]_vars
    /\ \A c \in Callers : C14_Waiting(c) ~> C14_Resumed(c)

\* The first caller's connect failed on slot exhaustion and its release woke the
\* caller queued behind it.
C14_Witness ==
    \E c1, c2 \in Callers :
        /\ c1 # c2 /\ inst[c1] = inst[c2]
        /\ pc[c1] = "done" /\ call[c1].cause = "BleakOutOfConnectionSlotsError"
        /\ pc[c2] = "lock_woken" /\ ~locked[inst[c2]]

\* The positions of a scan result whose address is the target's up to letter case.
C12_Matches(scan) == {k \in 1..Len(scan) : scan[k] \in {"AA:01", "Aa:01", "aa:01"}}

\* C12: when the scan returns, resolution yields the first entry whose address
\* equals the target ignoring case, if there is one, and otherwise raises the
\* device-not-found error; after that error nothing is retried, connected or
\* written.
C12_Step ==
    \A c \in Callers :
        /\ (/\ pc[c] = "scanning" /\ pc'[c] # "scanning"
            /\ call'[c].result.kind \notin {"CancelledError", "BleakError"}) =>
              LET m == C12_Matches(call[c].scan)
              IN /\ call[c].lookups = 1 /\ call[c].scans = 1
                 /\ IF m # {}
                    THEN /\ pc'[c] = "connecting"
                         /\ call'[c].dev = call[c].scan[CHOOSE k \in m : \A j \in m : k <= j]
                         /\ call'[c].connects = 1
                    ELSE /\ pc'[c] = "done"
                         /\ call'[c].result =
                              Exc("APIConnectionError", "Device not found! Failed connecting!")
                         /\ ~locked'[inst[c]]
        /\ (pc[c] = "done" /\ call[c].result.msg = "Device not found! Failed connecting!") =>
              pc'[c] \in {"done", "idle"}

C12_State ==
    \A c \in Callers :
        call[c].result.msg = "Device not found! Failed connecting!" =>
            /\ pc[c] = "done" /\ call[c].handle = "none" /\ call[c].connects = 0
            /\ call[c].wire = <<>> /\ call[c].fwrites = 0 /\ call[c].ndisc = 0

C12_ScanMatch == []C12_State /\ [][C12_Step]_vars

\* The scan listed the target's address in lower case and that entry is being
\* connected to.
C12_Witness ==
    \E c \in Callers :
        pc[c] = "connecting" /\ call[c].scans = 1 /\ call[c].dev = "aa:01"

\* The scan listed nothing that matches and the call ended with device-not-found.
C12_NotFoundReached ==
    \E c \in Callers :
        pc[c] = "done" /\ call[c].result.msg = "Device not found! Failed connecting!"

\* C13: however resolve+connect fails on a transport exception, raised by the
\* direct lookup, by the discovery scan or by the connector, the caller gets an
\* APIConnectionError.
C13_NoRawException ==
    \A c \in Callers :
        (pc[c] = "done" /\ call[c].cause # "none") =>
            call[c].result.kind = "APIConnectionError"

C15_Failed(c) ==
    pc[c] = "done" /\ call[c].result.kind \in {"APIConnectionError", "RetryError", "BleakError"}

\* C15 as stated: every failed control operation has made a disconnect attempt
\* by the time it ends, wherever it failed (taken here for the failures that
\* reach the caller as APIConnectionError).
C15_AlwaysDisconnects ==
    \A c \in Callers :
        (C15_Failed(c) /\ call[c].result.kind = "APIConnectionError") => call[c].ndisc >= 1

\* C15, amended: an operation that fails once it has a handle (connected, writing
\* the primary frame or the commit frame) goes through the disconnect before it
\* ends; one that fails while resolving or connecting has no handle and ends
\* without a disconnect attempt.
C15_State ==
    \A c \in Callers :
        C15_Failed(c) =>
            /\ HasHandle(c) => call[c].ndisc = 1
            /\ ~HasHandle(c) => (call[c].ndisc = 0 /\ call[c].wire = <<>>)

C15_Step ==
    \A c \in Callers :
        /\ pc[c] \in {"writing", "backoff"} => pc'[c] \in {"writing", "backoff", "disconnecting"}
        /\ (pc[c] # "done" /\ pc'[c] = "done" /\ call'[c].handle # "none") =>
              (pc[c] = "disconnecting" /\ call[c].ndisc = 1)
        /\ (InCriticalSection(c) /\ pc'[c] = "done") =>
              (call'[c].handle = "none" /\ call'[c].ndisc = 0)

C15_CleanupOnceConnected == []C15_State /\ [][C15_Step]_vars

\* The commit frame's write failed for good; the handle was disconnected before
\* the call ended.
C15_Witness ==
    \E c \in Callers :
        /\ pc[c] = "done" /\ call[c].result.kind = "RetryError"
        /\ call[c].wire = <<call[c].cmd>>
        /\ call[c].handle = "closed" /\ call[c].ndisc = 1

\* C16: a frame is attempted at most 3 times, so a call invokes write_gatt_char at
\* most 6 times, at most 3 of them for the primary frame; a call whose primary
\* frame fails on all 3 attempts ends after exactly 3 invocations.
C16_State ==
    \A c \in Callers :
        /\ call[c].attempt <= 3 /\ call[c].fwrites <= 3
        /\ call[c].stage # "none" => call[c].fwrites <= call[c].attempt
        /\ call[c].nwrites <= 6
        /\ call[c].stage = "primary" => (call[c].nwrites = call[c].fwrites /\ call[c].nwrites <= 3)
        /\ call[c].stage = "commit" =>
              (call[c].nwrites - call[c].fwrites \in 1..3 /\ call[c].wire = <<call[c].cmd>>)

C16_Step ==
    \A c \in Callers :
        /\ call'[c].nwrites \in {call[c].nwrites, call[c].nwrites + 1, 0}
        /\ (/\ pc[c] = "writing" /\ pc'[c] = "disconnecting"
            /\ call'[c].pending.kind = "RetryError" /\ call[c].stage = "primary") =>
              (call[c].nwrites = 3 /\ call[c].attempt = 3 /\ call'[c].wire = <<>>)

C16_WriteBudget == []C16_State /\ [][C16_Step]_vars

\* The sixth write of a call is in flight: both frames took three attempts.
C16_Witness ==
    \E c \in Callers :
        /\ pc[c] = "writing" /\ call[c].stage = "commit"
        /\ call[c].attempt = 3 /\ call[c].nwrites = 6

\* The primary frame's third write failed and the call is ending.
C16_PrimaryGivenUp ==
    \E c \in Callers :
        /\ pc[c] = "disconnecting" /\ call[c].pending.kind = "RetryError"
        /\ call[c].wire = <<>> /\ call[c].fwrites = 3

\* C17: within one connect call every connection attempt is preceded by its own
\* resolution of the device: as many resolutions have run as connection attempts
\* were started.
C17_ResolvePerAttempt ==
    \A c \in Callers :
        pc[c] = "connecting" => call[c].lookups = call[c].connects

\* C18: a list_characteristics call writes nothing to the device, and once it has
\* a handle it calls disconnect on it exactly once on every way out: the mapping
\* was built, the handle was not connected, or no services were available.
C18_ListReadOnly ==
    \A c \in Callers :
        call[c].req.name = "list_characteristics" =>
            /\ call[c].wire = <<>> /\ call[c].nwrites = 0 /\ call[c].fwrites = 0
            /\ call[c].stage = "none" /\ pc[c] \notin {"writing", "backoff"}
            /\ call[c].ndisc <= 1
            /\ ~HasHandle(c) => call[c].ndisc = 0
            /\ pc[c] = "get_services" => (call[c].handle = "up" /\ call[c].ndisc = 0)
            /\ (pc[c] \in {"disconnecting", "done"} /\ HasHandle(c)) => call[c].ndisc = 1

\* No services on the client: the call ended with the ConnectionError and the
\* handle was disconnected.
C18_Witness ==
    \E c \in Callers :
        /\ call[c].req.name = "list_characteristics" /\ pc[c] = "done"
        /\ call[c].result = Exc("APIConnectionError",
                                "Services not available on this platform/client")
        /\ call[c].handle = "closed" /\ call[c].ndisc = 1

\* The mapping was returned and the handle was disconnected.
C18_TopologyReturned ==
    \E c \in Callers :
        /\ call[c].req.name = "list_characteristics" /\ pc[c] = "done"
        /\ call[c].result = Returned /\ call[c].ndisc = 1

\* C19: the connect lock of an instance is locked exactly while one of its callers
\* is resolving or connecting; callers that write or disconnect do not keep it,
\* so another caller of the instance can resolve and connect meanwhile.
C19_LockOnlyInConnect ==
    \A i \in Instances :
        locked[i] <=> \E c \in Callers : inst[c] = i /\ InCriticalSection(c)

\* One caller is still writing on its handle while another caller of the same
\* instance holds the lock and connects.
C19_Witness ==
    \E c1, c2 \in Callers :
        /\ c1 # c2 /\ inst[c1] = inst[c2]
        /\ pc[c1] = "writing" /\ call[c1].handle = "up"
        /\ pc[c2] = "connecting" /\ locked[inst[c2]]

\* One caller is disconnecting while another caller of the same instance resolves.
C19_WhileDisconnecting ==
    \E c1, c2 \in Callers :
        /\ c1 # c2 /\ inst[c1] = inst[c2]
        /\ pc[c1] = "disconnecting" /\ pc[c2] = "lookup"

\* C20: a service call runs on a SolemAPI instance of its own, so it finds the
\* connect lock free, never queues on it, and the lock does not keep two service
\* calls from resolving and connecting at the same time.
C20_State ==
    /\ \A c \in Callers :
          /\ inst[c] = c
          /\ pc[c] \notin {"lock_wait", "lock_woken", "lock_cancelled", "lock_woken_cancelled"}
          /\ locked[c] <=> InCriticalSection(c)
    /\ \A i \in Instances : waiters[i] = <<>>

C20_Step ==
    \A c \in Callers :
        (pc[c] = "idle" /\ pc'[c] # "idle") =>
            (~locked[inst[c]] /\ pc'[c] \in {"lookup", "done"})

C20_OwnLock == []C20_State /\ [][C20_Step]_vars

\* Two service calls are inside resolve+connect at once, each holding its own lock.
C20_Witness ==
    \E c1, c2 \in Callers :
        /\ c1 # c2 /\ inst[c1] # inst[c2]
        /\ pc[c1] = "connecting" /\ pc[c2] = "connecting"
        /\ locked[inst[c1]] /\ locked[inst[c2]]

====
